---- MODULE Spec2Model ----
(***************************************************************************)
(* Model of Phaser.Sound.BaseSoundManager                                  *)
(* (src/v3/src/sound/BaseSoundManager.js).                                 *)
(*                                                                         *)
(* The manager owns an ordered registry of sounds.  The sounds themselves, *)
(* the concrete add() factory, the event dispatchers and the json cache    *)
(* are collaborators that live outside BaseSoundManager.js; they are       *)
(* modelled at their interface.  JavaScript is single threaded, so every   *)
(* manager method is one atomic action.                                    *)
(***************************************************************************)
EXTENDS Integers, Sequences, FiniteSets, TLC

(* ----------------------------- bounds ---------------------------------- *)
\* number of sounds that are ever created through add()
MaxSounds == 3

(* ------------------------- input domains ------------------------------- *)
Keys == {"x", "y"}
SoundIds == 1..MaxSounds
Rates == {1, 2}
Detunes == {0, 100}
Times == {1, 2}
Deltas == {16}
\* the optional second argument of play(): absent, a config, or a marker
Extras == {"none", "config", "marker"}
SpriteNames == {"a"}
Volumes == {0, 1}

VARIABLES
    game,         \* this.game: "game" or "null"
    events,       \* this.events: "dispatcher" or "null"
    sounds,       \* this.sounds: sequence of sound ids, NullSounds once released
    mute,         \* this.mute
    volume,       \* this.volume
    _rate,        \* this._rate
    _detune,      \* this._detune
    pauseOnBlur,  \* this.pauseOnBlur
    gameEvents,   \* listeners the manager has registered on game.events
    sound,        \* the sound objects, indexed by id
    created,      \* number of sound objects created so far
    stats,        \* history counters
    call          \* record of the last operation and of the calls it made

vars == <<game, events, sounds, mute, volume, _rate, _detune, pauseOnBlur,
          gameEvents, sound, created, stats, call>>

\* this.sounds = null
NullSounds == <<0>>

Range(f) == {f[i] : i \in DOMAIN f}

\* Array.prototype.splice(i, 1) on a 1-based sequence
Splice(seq, i) == [j \in 1..(Len(seq) - 1) |-> IF j < i THEN seq[j] ELSE seq[j + 1]]

\* Array.prototype.indexOf, 0 standing for -1
RECURSIVE IndexFrom(_, _, _)
IndexFrom(seq, x, i) ==
    IF i > Len(seq) THEN 0
    ELSE IF seq[i] = x THEN i
    ELSE IndexFrom(seq, x, i + 1)

indexOf(seq, x) == IndexFrom(seq, x, 1)

(* ------------------------------ sounds --------------------------------- *)
\* a sound object that does not exist yet
NoSound == [key |-> "", pendingRemove |-> FALSE, onceEnded |-> FALSE,
            destroyCalls |-> 0, fireAndForget |-> FALSE, ended |-> FALSE]

\* a sound object as the add() factory returns it
NewSound(key) == [NoSound EXCEPT !.key = key]

\* sound.destroy(): the sound marks itself pendingRemove
SoundDestroy(snd) ==
    [snd EXCEPT !.pendingRemove = TRUE, !.destroyCalls = @ + 1]

\* mutant of OnceEnded: the completion handler is never subscribed
OnceEndedMissing(snd) == snd

\* sound.events.once('SOUND_ENDED', sound.destroy.bind(sound))
OnceEnded(snd) == [snd EXCEPT !.onceEnded = TRUE]

\* the sound dispatches SOUND_ENDED: a one-shot handler, when subscribed,
\* fires and is dropped
DispatchEnded(snd) ==
    IF snd.onceEnded
    THEN SoundDestroy([snd EXCEPT !.onceEnded = FALSE, !.ended = TRUE])
    ELSE [snd EXCEPT !.ended = TRUE]

(* ---------------------------- call records ----------------------------- *)
\* one call the manager makes on a sound (s > 0) or on a dispatcher (s = 0)
Invoke(m, s) == [m |-> m, s |-> s, a |-> "", v |-> 0, w |-> 0]
InvokeWith(m, s, a, v, w) == [m |-> m, s |-> s, a |-> a, v |-> v, w |-> w]

\* how often the calls made invoke method m on sound s
Invoked(calls, m, s) ==
    Cardinality({i \in DOMAIN calls : calls[i].m = m /\ calls[i].s = s})

\* the sound objects after the sound.destroy() calls among calls have run
RECURSIVE Destroyed(_, _)
Destroyed(snd, n) == IF n = 0 THEN snd ELSE Destroyed(SoundDestroy(snd), n - 1)

AfterDestroys(calls) ==
    [s \in SoundIds |-> Destroyed(sound[s], Invoked(calls, "destroy", s))]

NoCall == [op |-> "new", key |-> "", extra |-> "", snd |-> 0, val |-> 0,
           val2 |-> 0, ret |-> FALSE, removed |-> 0, threw |-> FALSE,
           calls |-> <<>>]

\* adds: sounds created through add(); removes: sounds taken out by remove()
\* calls that returned true and by removeByKey() (its returned counts);
\* autoDestroys: runs of the one-shot SOUND_ENDED handler; reaped: sounds
\* spliced out by the first loop of update()
NoStats == [adds |-> 0, removes |-> 0, autoDestroys |-> 0, reaped |-> 0]

(* ----------------------------- constructor ----------------------------- *)
Init ==
    /\ game = "game"
    /\ events = "dispatcher"
    /\ sounds = <<>>
    /\ mute = FALSE
    /\ volume = 1
    /\ _rate = 1
    /\ _detune = 0
    /\ pauseOnBlur = TRUE
    /\ gameEvents = <<"ON_BLUR", "ON_FOCUS">>
    /\ sound = [s \in SoundIds |-> NoSound]
    /\ created = 0
    /\ stats = NoStats
    /\ call = NoCall

\* the manager has not been destroyed
Live == sounds # NullSounds

(* -------------------------------- add ---------------------------------- *)
\* the registry after the backend's add(key) has pushed the new sound
AddedSounds(snds, id) == Append(snds, id)

add(key) ==
    /\ Live
    /\ created < MaxSounds
    /\ created' = created + 1
    /\ sound' = [sound EXCEPT ![created + 1] = NewSound(key)]
    /\ sounds' = AddedSounds(sounds, created + 1)
    /\ stats' = [stats EXCEPT !.adds = @ + 1]
    /\ call' = [NoCall EXCEPT !.op = "add", !.key = key, !.snd = created + 1]
    /\ UNCHANGED <<game, events, mute, volume, _rate, _detune, pauseOnBlur,
                   gameEvents>>

(* --------------------------- addAudioSprite ---------------------------- *)
\* this.game.cache.json: the keys that have sprite metadata
JsonKeys == {"x"}

\* this.game.cache.json.get(key).spritemap, in for-in order; own = FALSE is
\* an entry inherited through the prototype chain
Spritemap == << [name |-> "a", start |-> 0, end |-> 2, own |-> TRUE],
                [name |-> "proto", start |-> 0, end |-> 9, own |-> FALSE],
                [name |-> "b", start |-> 2, end |-> 5, own |-> TRUE] >>

\* mutant of MarkerCalls: the hasOwnProperty test is dropped
RECURSIVE MarkerCallsInherited(_, _, _)
MarkerCallsInherited(id, map, i) ==
    IF i > Len(map) THEN <<>>
    ELSE <<InvokeWith("addMarker", id, map[i].name, map[i].start,
                      map[i].end - map[i].start)>>
         \o MarkerCallsInherited(id, map, i + 1)

\* the for-in loop of addAudioSprite from entry i on
RECURSIVE MarkerCalls(_, _, _)
MarkerCalls(id, map, i) ==
    IF i > Len(map) THEN <<>>
    ELSE IF ~map[i].own THEN MarkerCalls(id, map, i + 1)
    ELSE <<InvokeWith("addMarker", id, map[i].name, map[i].start,
                      map[i].end - map[i].start)>>
         \o MarkerCalls(id, map, i + 1)

\* the calls addAudioSprite makes on the sound it has added
AudioSpriteCalls(id) ==
    <<Invoke("spritemap", id)>> \o MarkerCalls(id, Spritemap, 1)

addAudioSprite(key) ==
    /\ Live
    /\ created < MaxSounds
    /\ created' = created + 1
    /\ sound' = [sound EXCEPT ![created + 1] = NewSound(key)]
    /\ sounds' = AddedSounds(sounds, created + 1)
    /\ stats' = [stats EXCEPT !.adds = @ + 1]
    /\ call' = [NoCall EXCEPT !.op = "addAudioSprite", !.key = key,
                              !.snd = created + 1,
                              !.threw = (key \notin JsonKeys),
                              !.calls = IF key \in JsonKeys
                                        THEN AudioSpriteCalls(created + 1)
                                        ELSE <<>>]
    /\ UNCHANGED <<game, events, mute, volume, _rate, _detune, pauseOnBlur,
                   gameEvents>>

(* -------------------------- play / playAudioSprite --------------------- *)
\* the name of the marker object passed as extra
MarkerName == "m"

\* mutant of PlayCalls: the completion handler is subscribed after playback
\* has been started
PlayCallsLate(id, extra) ==
    (IF extra # "none"
     THEN IF extra = "marker"
          THEN <<InvokeWith("addMarker", id, MarkerName, 0, 1),
                 InvokeWith("play", id, MarkerName, 0, 0)>>
          ELSE <<InvokeWith("play", id, "config", 0, 0)>>
     ELSE <<Invoke("play", id)>>)
    \o <<Invoke("once", id)>>

\* the calls play() makes on the new sound
PlayCalls(id, extra) ==
    <<Invoke("once", id)>> \o
    (IF extra # "none"
     THEN IF extra = "marker"
          THEN <<InvokeWith("addMarker", id, MarkerName, 0, 1),
                 InvokeWith("play", id, MarkerName, 0, 0)>>
          ELSE <<InvokeWith("play", id, "config", 0, 0)>>
     ELSE <<Invoke("play", id)>>)

\* the new sound after play() has subscribed its completion handler
PlaySound(key) == OnceEnded([NewSound(key) EXCEPT !.fireAndForget = TRUE])

play(key, extra) ==
    /\ Live
    /\ created < MaxSounds
    /\ created' = created + 1
    /\ sound' = [sound EXCEPT ![created + 1] = PlaySound(key)]
    /\ sounds' = AddedSounds(sounds, created + 1)
    /\ stats' = [stats EXCEPT !.adds = @ + 1]
    /\ call' = [NoCall EXCEPT !.op = "play", !.key = key, !.extra = extra,
                              !.snd = created + 1,
                              !.calls = PlayCalls(created + 1, extra)]
    /\ UNCHANGED <<game, events, mute, volume, _rate, _detune, pauseOnBlur,
                   gameEvents>>

\* the calls playAudioSprite makes after addAudioSprite has returned
PlayAudioSpriteCalls(id, spriteName) ==
    <<Invoke("once", id), InvokeWith("play", id, spriteName, 0, 0)>>

playAudioSprite(key, spriteName) ==
    /\ Live
    /\ created < MaxSounds
    /\ created' = created + 1
    /\ sound' = [sound EXCEPT ![created + 1] =
                    IF key \in JsonKeys THEN PlaySound(key) ELSE NewSound(key)]
    /\ sounds' = AddedSounds(sounds, created + 1)
    /\ stats' = [stats EXCEPT !.adds = @ + 1]
    /\ call' = [NoCall EXCEPT !.op = "playAudioSprite", !.key = key,
                              !.snd = created + 1,
                              !.threw = (key \notin JsonKeys),
                              !.calls = IF key \in JsonKeys
                                        THEN AudioSpriteCalls(created + 1) \o
                                             PlayAudioSpriteCalls(created + 1,
                                                                  spriteName)
                                        ELSE <<>>]
    /\ UNCHANGED <<game, events, mute, volume, _rate, _detune, pauseOnBlur,
                   gameEvents>>

(* -------------------------- completion signal -------------------------- *)
\* the sounds whose playback can still reach its end: the ones the manager
\* has started and that have neither ended nor been destroyed
Playing(s) ==
    /\ s \in 1..created
    /\ sound[s].fireAndForget
    /\ ~sound[s].pendingRemove
    /\ ~sound[s].ended

\* the backend of sound s signals SOUND_ENDED outside of a frame update
SoundEnded(s) ==
    /\ Playing(s)
    /\ sound' = [sound EXCEPT ![s] = DispatchEnded(@)]
    /\ stats' = [stats EXCEPT !.autoDestroys =
                    IF sound[s].onceEnded THEN @ + 1 ELSE @]
    /\ call' = [NoCall EXCEPT !.op = "SOUND_ENDED", !.snd = s]
    /\ UNCHANGED <<game, events, sounds, mute, volume, _rate, _detune,
                   pauseOnBlur, gameEvents, created>>

(* ------------------------------- remove -------------------------------- *)
\* mutant of RemoveCalls: the sound is spliced out without being destroyed
RemoveCallsSpliceOnly(snds, s) == <<>>

\* mutant of RemoveCalls: destroy and splice without the index check
RemoveCallsUnchecked(snds, s) ==
    <<Invoke("destroy", s), Invoke("splice", s)>>

\* the calls remove(s) makes: destroy on the sound, splice on the registry
RemoveCalls(snds, s) ==
    IF indexOf(snds, s) # 0
    THEN <<Invoke("destroy", s), Invoke("splice", s)>>
    ELSE <<>>

\* mutant of RemoveSounds: the splice is forgotten
RemoveSoundsKept(snds, s) == snds

\* the registry remove(s) leaves
RemoveSounds(snds, s) ==
    IF indexOf(snds, s) # 0 THEN Splice(snds, indexOf(snds, s)) ELSE snds

\* the value remove(s) returns
RemoveResult(snds, s) == indexOf(snds, s) # 0

remove(s) ==
    /\ Live
    /\ s \in 1..created
    /\ sound' = AfterDestroys(RemoveCalls(sounds, s))
    /\ sounds' = RemoveSounds(sounds, s)
    /\ stats' = [stats EXCEPT !.removes =
                    IF RemoveResult(sounds, s) THEN @ + 1 ELSE @]
    /\ call' = [NoCall EXCEPT !.op = "remove", !.snd = s,
                              !.ret = RemoveResult(sounds, s),
                              !.calls = RemoveCalls(sounds, s)]
    /\ UNCHANGED <<game, events, mute, volume, _rate, _detune, pauseOnBlur,
                   gameEvents, created>>

(* ----------------------------- removeByKey ----------------------------- *)
\* the loop of removeByKey from index i down to 1; acc holds the registry,
\* the removed counter and the destroy calls made so far
RECURSIVE RemoveByKeyLoop(_, _, _)
RemoveByKeyLoop(acc, key, i) ==
    IF i < 1 THEN acc
    ELSE IF sound[acc.sounds[i]].key = key
         THEN RemoveByKeyLoop([sounds |-> Splice(acc.sounds, i),
                               removed |-> acc.removed + 1,
                               calls |-> Append(acc.calls,
                                            Invoke("destroy", acc.sounds[i]))],
                              key, i - 1)
         ELSE RemoveByKeyLoop(acc, key, i - 1)

\* mutant of RemoveByKey: the scan runs from the start towards the end
RECURSIVE RemoveByKeyForwardLoop(_, _, _)
RemoveByKeyForwardLoop(acc, key, i) ==
    IF i > Len(acc.sounds) THEN acc
    ELSE IF sound[acc.sounds[i]].key = key
         THEN RemoveByKeyForwardLoop(
                  [sounds |-> Splice(acc.sounds, i),
                   removed |-> acc.removed + 1,
                   calls |-> Append(acc.calls,
                                    Invoke("destroy", acc.sounds[i]))],
                  key, i + 1)
         ELSE RemoveByKeyForwardLoop(acc, key, i + 1)

RemoveByKeyForward(snds, key) ==
    RemoveByKeyForwardLoop([sounds |-> snds, removed |-> 0, calls |-> <<>>],
                           key, 1)

RemoveByKey(snds, key) ==
    RemoveByKeyLoop([sounds |-> snds, removed |-> 0, calls |-> <<>>],
                    key, Len(snds))

removeByKey(key) ==
    /\ Live
    /\ \E r \in {RemoveByKey(sounds, key)} :
          /\ sound' = AfterDestroys(r.calls)
          /\ sounds' = r.sounds
          /\ stats' = [stats EXCEPT !.removes = @ + r.removed]
          /\ call' = [NoCall EXCEPT !.op = "removeByKey", !.key = key,
                                    !.removed = r.removed,
                                    !.calls = r.calls]
    /\ UNCHANGED <<game, events, mute, volume, _rate, _detune, pauseOnBlur,
                   gameEvents, created>>

(* ------------------------- forEachActiveSound -------------------------- *)
\* the sounds forEachActiveSound invokes its callback on, in call order
RECURSIVE ForEachActive(_, _)
ForEachActive(snds, index) ==
    IF index > Len(snds) THEN <<>>
    ELSE IF ~sound[snds[index]].pendingRemove
         THEN <<snds[index]>> \o ForEachActive(snds, index + 1)
         ELSE ForEachActive(snds, index + 1)

\* mutant of forEachActiveSound: the pendingRemove test is dropped
forEachSound(snds) == snds

forEachActiveSound(snds) == ForEachActive(snds, 1)

\* the calls of one bulk operation: method m on every active sound
RECURSIVE Calls(_, _, _)
Calls(targets, m, i) ==
    IF i > Len(targets) THEN <<>>
    ELSE <<Invoke(m, targets[i])>> \o Calls(targets, m, i + 1)

ActiveCalls(snds, m) == Calls(forEachActiveSound(snds), m, 1)

\* this.events.dispatch(new SoundEvent(this, name)) or, with a value,
\* new SoundValueEvent(this, name, value)
Dispatch(name, value) == InvokeWith(name, 0, "dispatch", value, 0)

(* -------------------- pauseAll / resumeAll / stopAll ------------------- *)
\* mutant of PauseAllCalls: the event is dispatched inside the loop
RECURSIVE PausePerSound(_, _)
PausePerSound(targets, i) ==
    IF i > Len(targets) THEN <<>>
    ELSE <<Invoke("pause", targets[i]), Dispatch("SOUND_PAUSE", 0)>>
         \o PausePerSound(targets, i + 1)

PauseAllCallsPerSound(snds) == PausePerSound(forEachActiveSound(snds), 1)

PauseAllCalls(snds) ==
    ActiveCalls(snds, "pause") \o <<Dispatch("SOUND_PAUSE", 0)>>

pauseAll ==
    /\ Live
    /\ call' = [NoCall EXCEPT !.op = "pauseAll", !.calls = PauseAllCalls(sounds)]
    /\ UNCHANGED <<game, events, sounds, mute, volume, _rate, _detune,
                   pauseOnBlur, gameEvents, sound, created, stats>>

ResumeAllCalls(snds) ==
    ActiveCalls(snds, "resume") \o <<Dispatch("SOUND_RESUME", 0)>>

resumeAll ==
    /\ Live
    /\ call' = [NoCall EXCEPT !.op = "resumeAll", !.calls = ResumeAllCalls(sounds)]
    /\ UNCHANGED <<game, events, sounds, mute, volume, _rate, _detune,
                   pauseOnBlur, gameEvents, sound, created, stats>>

StopAllCalls(snds) ==
    ActiveCalls(snds, "stop") \o <<Dispatch("SOUND_STOP", 0)>>

stopAll ==
    /\ Live
    /\ call' = [NoCall EXCEPT !.op = "stopAll", !.calls = StopAllCalls(sounds)]
    /\ UNCHANGED <<game, events, sounds, mute, volume, _rate, _detune,
                   pauseOnBlur, gameEvents, sound, created, stats>>

(* ------------------------- rate / detune accessors --------------------- *)
\* get rate()
rate == _rate

\* get detune()
detune == _detune

\* sound.setRate() on every target: the hook takes no argument and reads
\* the manager's rate and detune as they are when it runs
RECURSIVE RateHookCalls(_, _, _, _)
RateHookCalls(targets, rateNow, detuneNow, i) ==
    IF i > Len(targets) THEN <<>>
    ELSE <<InvokeWith("setRate", targets[i], "", rateNow, detuneNow)>>
         \o RateHookCalls(targets, rateNow, detuneNow, i + 1)

\* mutant of SetRateCalls: the hooks run before the store
SetRateCallsStale(snds, value) ==
    RateHookCalls(forEachActiveSound(snds), _rate, _detune, 1)
        \o <<Dispatch("SOUND_RATE", value)>>

\* mutant of SetDetuneCalls: the write is stored and announced only
SetDetuneCallsNone(snds, value) == <<Dispatch("SOUND_DETUNE", value)>>

\* the calls of set rate(value) after the store
SetRateCalls(snds, value) ==
    RateHookCalls(forEachActiveSound(snds), value, _detune, 1)
        \o <<Dispatch("SOUND_RATE", value)>>

\* set rate(value)
setRate(value) ==
    /\ Live
    /\ _rate' = value
    /\ call' = [NoCall EXCEPT !.op = "rate", !.val = value,
                              !.calls = SetRateCalls(sounds, value)]
    /\ UNCHANGED <<game, events, sounds, mute, volume, _detune, pauseOnBlur,
                   gameEvents, sound, created, stats>>

\* the calls of set detune(value) after the store
SetDetuneCalls(snds, value) ==
    RateHookCalls(forEachActiveSound(snds), _rate, value, 1)
        \o <<Dispatch("SOUND_DETUNE", value)>>

\* mutant of setDetune: the write also resets the rate
setDetuneResetsRate(value) ==
    /\ Live
    /\ _detune' = value
    /\ _rate' = 1
    /\ call' = [NoCall EXCEPT !.op = "detune", !.val = value,
                              !.calls = SetDetuneCalls(sounds, value)]
    /\ UNCHANGED <<game, events, sounds, mute, volume, pauseOnBlur,
                   gameEvents, sound, created, stats>>

\* set detune(value)
setDetune(value) ==
    /\ Live
    /\ _detune' = value
    /\ call' = [NoCall EXCEPT !.op = "detune", !.val = value,
                              !.calls = SetDetuneCalls(sounds, value)]
    /\ UNCHANGED <<game, events, sounds, mute, volume, _rate, pauseOnBlur,
                   gameEvents, sound, created, stats>>

(* ---------------------------- mute / volume ---------------------------- *)
\* the application assigns manager.mute: a plain field, no accessor
setMute(value) ==
    /\ Live
    /\ mute' = value
    /\ call' = [NoCall EXCEPT !.op = "mute", !.ret = value]
    /\ UNCHANGED <<game, events, sounds, volume, _rate, _detune, pauseOnBlur,
                   gameEvents, sound, created, stats>>

\* the application assigns manager.volume: a plain field, no accessor
setVolume(value) ==
    /\ Live
    /\ volume' = value
    /\ call' = [NoCall EXCEPT !.op = "volume", !.val = value]
    /\ UNCHANGED <<game, events, sounds, mute, _rate, _detune, pauseOnBlur,
                   gameEvents, sound, created, stats>>

(* ------------------------------- update -------------------------------- *)
\* mutant of ReapLoop: the scan stops before the first element
RECURSIVE ReapLoopShort(_, _)
ReapLoopShort(snds, i) ==
    IF i < 2 THEN snds
    ELSE IF sound[snds[i]].pendingRemove
         THEN ReapLoopShort(Splice(snds, i), i - 1)
         ELSE ReapLoopShort(snds, i - 1)

\* the first loop of update from index i down to 1
RECURSIVE ReapLoop(_, _)
ReapLoop(snds, i) ==
    IF i < 1 THEN snds
    ELSE IF sound[snds[i]].pendingRemove
         THEN ReapLoop(Splice(snds, i), i - 1)
         ELSE ReapLoop(snds, i - 1)

\* mutant of Reap: the first loop of update is skipped
ReapNothing(snds) == snds

\* mutant of Reap: the scan runs from the start towards the end
RECURSIVE ReapForwardLoop(_, _)
ReapForwardLoop(snds, i) ==
    IF i > Len(snds) THEN snds
    ELSE IF sound[snds[i]].pendingRemove
         THEN ReapForwardLoop(Splice(snds, i), i + 1)
         ELSE ReapForwardLoop(snds, i + 1)

ReapForward(snds) == ReapForwardLoop(snds, 1)

\* the registry after the first loop of update
Reap(snds) == ReapLoop(snds, Len(snds))

\* the calls of the second loop of update
TickCalls(snds, time, delta) ==
    [i \in 1..Len(snds) |-> InvokeWith("update", snds[i], "", time, delta)]

\* the sounds whose own update() can find their playback finished in the
\* frame that ticks the registry snds
CanEnd(snds) == {s \in Range(snds) : Playing(s)}

\* update(time, delta); ending is the set of sounds whose own update()
\* finds their playback finished and signals SOUND_ENDED during this frame
update(time, delta, ending) ==
    /\ Live
    /\ \E survivors \in {Reap(sounds)} :
          /\ ending \subseteq CanEnd(survivors)
          /\ sounds' = survivors
          /\ sound' = [s \in SoundIds |->
                          IF s \in ending THEN DispatchEnded(sound[s])
                          ELSE sound[s]]
          /\ stats' = [stats EXCEPT
                          !.reaped = @ + (Len(sounds) - Len(survivors)),
                          !.autoDestroys = @ + Cardinality(
                              {s \in ending : sound[s].onceEnded})]
          /\ call' = [NoCall EXCEPT !.op = "update", !.val = time,
                                    !.val2 = delta,
                                    !.calls = TickCalls(survivors, time, delta)]
    /\ UNCHANGED <<game, events, mute, volume, _rate, _detune, pauseOnBlur,
                   gameEvents, created>>

(* ------------------------------- destroy ------------------------------- *)
\* mutant of DestroyCalls: every registered sound is destroyed
DestroyCallsAll(snds) ==
    <<Invoke("destroy", 0)>> \o Calls(snds, "destroy", 1)

\* the calls of destroy(): the event channel, then the active sounds
DestroyCalls(snds) ==
    <<Invoke("destroy", 0)>> \o ActiveCalls(snds, "destroy")

destroy ==
    /\ Live
    /\ game' = "null"
    /\ events' = "null"
    /\ sound' = AfterDestroys(DestroyCalls(sounds))
    /\ sounds' = NullSounds
    /\ call' = [NoCall EXCEPT !.op = "destroy", !.calls = DestroyCalls(sounds)]
    /\ UNCHANGED <<mute, volume, _rate, _detune, pauseOnBlur, gameEvents,
                   created, stats>>

(* ---------------------------- blur / focus ----------------------------- *)
\* the number of listeners registered on game.events for a signal
Listeners(name) ==
    Cardinality({i \in DOMAIN gameEvents : gameEvents[i] = name})

\* the body of one ON_BLUR listener
OnBlurCalls == IF pauseOnBlur THEN <<Invoke("onBlur", 0)>> ELSE <<>>

\* mutant of OnFocusCalls: the pauseOnBlur test is dropped
OnFocusCallsUngated == <<Invoke("onFocus", 0)>>

\* the body of one ON_FOCUS listener
OnFocusCalls == IF pauseOnBlur THEN <<Invoke("onFocus", 0)>> ELSE <<>>

RECURSIVE Repeat(_, _)
Repeat(seq, n) == IF n = 0 THEN <<>> ELSE seq \o Repeat(seq, n - 1)

\* game.events dispatches ON_BLUR
ON_BLUR ==
    /\ call' = [NoCall EXCEPT !.op = "ON_BLUR",
                              !.calls = Repeat(OnBlurCalls, Listeners("ON_BLUR"))]
    /\ UNCHANGED <<game, events, sounds, mute, volume, _rate, _detune,
                   pauseOnBlur, gameEvents, sound, created, stats>>

\* game.events dispatches ON_FOCUS
ON_FOCUS ==
    /\ call' = [NoCall EXCEPT !.op = "ON_FOCUS",
                              !.calls = Repeat(OnFocusCalls, Listeners("ON_FOCUS"))]
    /\ UNCHANGED <<game, events, sounds, mute, volume, _rate, _detune,
                   pauseOnBlur, gameEvents, sound, created, stats>>

\* the application assigns manager.pauseOnBlur
setPauseOnBlur(value) ==
    /\ Live
    /\ pauseOnBlur' = value
    /\ call' = [NoCall EXCEPT !.op = "pauseOnBlur", !.ret = value]
    /\ UNCHANGED <<game, events, sounds, mute, volume, _rate, _detune,
                   gameEvents, sound, created, stats>>

(* --------------------------- specifications ---------------------------- *)
\* the life cycle of the sounds: creation, completion, removal, the frame
\* update and the destruction of the manager
Next ==
    \/ \E key \in Keys : add(key)
    \/ \E key \in Keys : addAudioSprite(key)
    \/ \E key \in Keys, extra \in Extras : play(key, extra)
    \/ \E key \in Keys, spriteName \in SpriteNames : playAudioSprite(key, spriteName)
    \/ \E s \in SoundIds : SoundEnded(s)
    \/ \E key \in Keys : removeByKey(key)
    \/ \E s \in SoundIds : remove(s)
    \/ \E time \in Times, delta \in Deltas :
          \E ending \in SUBSET {s \in SoundIds : Playing(s)} :
             update(time, delta, ending)
    \/ destroy

Spec == Init /\ [][Next]_vars

\* the bulk controls and the global settings, over registries that hold
\* active and pendingRemove sounds
NextControls ==
    \/ \E key \in Keys : add(key)
    \/ \E key \in Keys, extra \in Extras : play(key, extra)
    \/ \E s \in SoundIds : SoundEnded(s)
    \/ pauseAll
    \/ resumeAll
    \/ stopAll
    \/ \E value \in Rates : setRate(value)
    \/ \E value \in Detunes : setDetune(value)
    \/ \E time \in Times, delta \in Deltas :
          \E ending \in SUBSET {s \in SoundIds : Playing(s)} :
             update(time, delta, ending)

SpecControls == Init /\ [][NextControls]_vars

\* the focus signals of the application, before and after destroy
NextFocus ==
    \/ \E key \in Keys : add(key)
    \/ \E key \in Keys, extra \in Extras : play(key, extra)
    \/ \E s \in SoundIds : SoundEnded(s)
    \/ destroy
    \/ ON_BLUR
    \/ ON_FOCUS
    \/ \E value \in BOOLEAN : setPauseOnBlur(value)

SpecFocus == Init /\ [][NextFocus]_vars

\* the global settings and everything that reads or propagates them, over
\* registries of sounds of one key that only grow
SettingsKeys == {"x"}

NextSettings ==
    \/ \E key \in SettingsKeys : add(key)
    \/ \E key \in SettingsKeys, extra \in Extras : play(key, extra)
    \/ \E s \in SoundIds : SoundEnded(s)
    \/ pauseAll
    \/ resumeAll
    \/ stopAll
    \/ \E value \in Rates : setRate(value)
    \/ \E value \in Detunes : setDetune(value)
    \/ \E value \in BOOLEAN : setMute(value)
    \/ \E value \in Volumes : setVolume(value)
    \/ ON_BLUR
    \/ ON_FOCUS
    \/ \E value \in BOOLEAN : setPauseOnBlur(value)

SpecSettings == Init /\ [][NextSettings]_vars
(* ------------------------------ properties ----------------------------- *)
\* the sounds a registry holds
Registered(snds) == IF snds = NullSounds THEN {} ELSE Range(snds)

\* the registry without the sounds of the set gone
Without(snds, gone) == SelectSeq(snds, LAMBDA s : s \notin gone)

\* no sound occurs twice in the registry
NoDuplicates(snds) ==
    \A i, j \in DOMAIN snds : i # j => snds[i] # snds[j]

\* C1: over play/playAudioSprite, completion signals, remove, removeByKey,
\* update and manager destroy, destroy is invoked at most once on every
\* fire-and-forget sound, and manager destroy invokes destroy exactly once
\* on every sound that is registered when it is called.
C1_NeverDoubleDestroyed ==
    [][ /\ \A s \in SoundIds :
              sound'[s].fireAndForget => sound'[s].destroyCalls <= 1
        /\ call'.op = "destroy" =>
              \A s \in Registered(sounds) :
                  Invoked(call'.calls, "destroy", s) = 1 ]_vars

\* C2: once SOUND_ENDED has been delivered to a fire-and-forget sound the
\* sound has been destroyed, and every update call that starts after the
\* delivery leaves the sound out of the registry.
C2_EndedThenDestroyedThenReaped ==
    [][ /\ \A s \in SoundIds :
              (sound'[s].fireAndForget /\ sound'[s].ended)
                  => sound'[s].destroyCalls >= 1
        /\ call'.op = "update" =>
              \A s \in SoundIds :
                  (sound[s].fireAndForget /\ sound[s].ended)
                      => s \notin Registered(sounds') ]_vars

\* a fire-and-forget sound has ended, was destroyed once, and an update has
\* dropped it although nothing was ever removed explicitly
C2_Witness ==
    /\ call.op = "update"
    /\ stats.removes = 0
    /\ \E s \in SoundIds :
          /\ sound[s].fireAndForget /\ sound[s].ended
          /\ sound[s].destroyCalls = 1
          /\ s \notin Registered(sounds)

\* C3: update(t, dt) removes exactly the sounds that are pendingRemove when
\* it is called, then calls update(t, dt) once on each survivor in registry
\* order; a sound that becomes pendingRemove during that tick pass was
\* ticked in it and is still registered when the call returns.
C3_ReapThenTick ==
    [][ call'.op = "update" =>
          /\ sounds' = Without(sounds, {s \in SoundIds : sound[s].pendingRemove})
          /\ Len(call'.calls) = Len(sounds')
          /\ \A i \in DOMAIN sounds' :
                call'.calls[i] = InvokeWith("update", sounds'[i], "",
                                            call'.val, call'.val2)
          /\ \A s \in SoundIds :
                (~sound[s].pendingRemove /\ sound'[s].pendingRemove) =>
                    /\ s \in Registered(sounds')
                    /\ Invoked(call'.calls, "update", s) = 1 ]_vars

\* an update has reaped one sound and ticked two, one of which set its
\* pendingRemove flag during the tick and is still registered
C3_Witness ==
    /\ call.op = "update"
    /\ stats.reaped >= 1
    /\ Len(sounds) = 2
    /\ Len(call.calls) = 2
    /\ \E s \in Registered(sounds) :
          sound[s].pendingRemove /\ Invoked(call.calls, "update", s) = 1

\* C4 as stated: while the manager is live the registry size is the number
\* of adds minus the successful removes minus the auto-destroys of
\* fire-and-forget sounds, and no sound occurs twice.
C4_SizeByAutoDestroys ==
    Live =>
        /\ Len(sounds) = stats.adds - stats.removes - stats.autoDestroys
        /\ NoDuplicates(sounds)

\* C4 amended: while the manager is live the registry size is the number of
\* adds minus the sounds taken out by remove and removeByKey minus the
\* sounds reaped by update, and no sound occurs twice.
C4_SizeByReaped ==
    Live =>
        /\ Len(sounds) = stats.adds - stats.removes - stats.reaped
        /\ NoDuplicates(sounds)

\* sounds were added, one was removed explicitly, one was auto-destroyed and
\* reaped, and one is still registered
C4_Witness ==
    /\ Live
    /\ stats.adds = 3
    /\ stats.removes = 1
    /\ stats.autoDestroys = 1
    /\ stats.reaped = 1
    /\ Len(sounds) = 1

\* C5: removeByKey(key) destroys and removes every registered sound with
\* that key and no other sound, returns the number of sounds it removed,
\* and keeps the remaining sounds in their order.
C5_RemoveByKeyExact ==
    [][ call'.op = "removeByKey" =>
          /\ sounds' = Without(sounds, {s \in SoundIds : sound[s].key = call'.key})
          /\ call'.removed = Len(sounds) - Len(sounds')
          /\ call'.removed =
                Cardinality({s \in Registered(sounds) : sound[s].key = call'.key})
          /\ \A s \in SoundIds :
                IF s \in Registered(sounds) /\ sound[s].key = call'.key
                THEN /\ Invoked(call'.calls, "destroy", s) = 1
                     /\ sound'[s].destroyCalls = sound[s].destroyCalls + 1
                ELSE /\ Invoked(call'.calls, "destroy", s) = 0
                     /\ sound'[s] = sound[s] ]_vars

\* removeByKey has removed the two adjacent sounds 1 and 2 that share a key
\* and has left sound 3
C5_Witness ==
    /\ call.op = "removeByKey"
    /\ call.removed = 2
    /\ sounds = <<3>>
    /\ sound[1].key = call.key /\ sound[2].key = call.key
    /\ sound[1].destroyCalls = 1 /\ sound[2].destroyCalls = 1
    /\ sound[3].key # call.key /\ sound[3].destroyCalls = 0

\* C6: remove(sound) on a registered sound destroys it, takes it out of the
\* registry and returns true; on a sound that is not registered it returns
\* false and changes neither the registry nor any sound; a remove that
\* follows a successful remove of the same sound returns false and changes
\* nothing.
C6_RemoveOrNoOp ==
    [][ call'.op = "remove" =>
          /\ IF call'.snd \in Registered(sounds)
             THEN /\ call'.ret = TRUE
                  /\ sounds' = Without(sounds, {call'.snd})
                  /\ Len(sounds') = Len(sounds) - 1
                  /\ call'.calls = <<Invoke("destroy", call'.snd),
                                     Invoke("splice", call'.snd)>>
                  /\ sound'[call'.snd].destroyCalls =
                        sound[call'.snd].destroyCalls + 1
                  /\ \A s \in SoundIds \ {call'.snd} : sound'[s] = sound[s]
             ELSE /\ call'.ret = FALSE
                  /\ sounds' = sounds
                  /\ sound' = sound
                  /\ call'.calls = <<>>
          /\ (call.op = "remove" /\ call.ret /\ call'.snd = call.snd) =>
                (call'.ret = FALSE /\ sounds' = sounds /\ sound' = sound) ]_vars

\* a sound handed out by add was removed once and a later remove of it has
\* returned false
C6_Witness ==
    /\ call.op = "remove"
    /\ call.ret = FALSE
    /\ call.calls = <<>>
    /\ stats.removes = 1
    /\ ~sound[call.snd].fireAndForget
    /\ sound[call.snd].destroyCalls = 1
    /\ call.snd \notin Registered(sounds)
    /\ Len(sounds) >= 1

\* the calls that invoke method m once on each active sound of the registry,
\* in registry order, followed by one dispatch of the named event
OnceOnEachActive(calls, m, name, value) ==
    /\ \A s \in SoundIds :
          Invoked(calls, m, s) =
             IF s \in Registered(sounds) /\ ~sound[s].pendingRemove
             THEN 1 ELSE 0
    /\ Len(calls) =
          Cardinality({s \in Registered(sounds) : ~sound[s].pendingRemove}) + 1
    /\ \A i, j \in 1..(Len(calls) - 1) :
          i < j => indexOf(sounds, calls[i].s) < indexOf(sounds, calls[j].s)
    /\ calls[Len(calls)] = InvokeWith(name, 0, "dispatch", value, 0)

\* C7: a write of rate (detune) with value v invokes setRate once on each
\* active sound and on no pendingRemove sound, makes rate (detune) read v,
\* and dispatches one SOUND_RATE (SOUND_DETUNE) event that carries v.
C7_RateDetuneWrite ==
    /\ call.op = "rate" =>
          /\ rate = call.val
          /\ OnceOnEachActive(call.calls, "setRate", "SOUND_RATE", call.val)
    /\ call.op = "detune" =>
          /\ detune = call.val
          /\ OnceOnEachActive(call.calls, "setRate", "SOUND_DETUNE", call.val)

\* rate was set to 2 on a registry of two active sounds and one
\* pendingRemove sound
C7_Witness ==
    /\ call.op = "rate"
    /\ call.val = 2
    /\ rate = 2
    /\ Len(sounds) = 3
    /\ Len(call.calls) = 3
    /\ \E s \in Registered(sounds) : sound[s].pendingRemove

\* C8: pauseAll, resumeAll and stopAll invoke pause, resume and stop once on
\* each active sound in registry order and on no pendingRemove sound, and
\* then dispatch one SOUND_PAUSE, SOUND_RESUME or SOUND_STOP event.
C8_BulkControls ==
    /\ call.op = "pauseAll" =>
          OnceOnEachActive(call.calls, "pause", "SOUND_PAUSE", 0)
    /\ call.op = "resumeAll" =>
          OnceOnEachActive(call.calls, "resume", "SOUND_RESUME", 0)
    /\ call.op = "stopAll" =>
          OnceOnEachActive(call.calls, "stop", "SOUND_STOP", 0)

\* pauseAll has run on a registry of two active sounds and one pendingRemove
\* sound that lies between them
C8_Witness ==
    /\ call.op = "pauseAll"
    /\ Len(sounds) = 3
    /\ sound[sounds[2]].pendingRemove
    /\ call.calls = <<Invoke("pause", sounds[1]), Invoke("pause", sounds[3]),
                      Dispatch("SOUND_PAUSE", 0)>>

\* C9: destroy() invokes destroy once on each active sound of the registry
\* and on no pendingRemove sound, and leaves the registry, the event
\* channel and the game reference released.
C9_DestroyActiveOnce ==
    [][ call'.op = "destroy" =>
          /\ \A s \in SoundIds :
                IF s \in Registered(sounds) /\ ~sound[s].pendingRemove
                THEN /\ Invoked(call'.calls, "destroy", s) = 1
                     /\ sound'[s].destroyCalls = sound[s].destroyCalls + 1
                ELSE /\ Invoked(call'.calls, "destroy", s) = 0
                     /\ sound'[s] = sound[s]
          /\ sounds' = NullSounds
          /\ events' = "null"
          /\ Invoked(call'.calls, "destroy", 0) = 1
          /\ game' = "null" ]_vars

\* destroy has run on a registry that held two active sounds and one
\* pendingRemove sound
C9_Witness ==
    /\ call.op = "destroy"
    /\ sounds = NullSounds
    /\ created = 3
    /\ stats.removes = 0 /\ stats.reaped = 0
    /\ Len(call.calls) = 3
    /\ \E s \in SoundIds : sound[s].ended /\ sound[s].destroyCalls = 1

\* C10: the manager holds one ON_BLUR and one ON_FOCUS subscription, and
\* once it is destroyed a blur or focus signal invokes neither onBlur nor
\* onFocus.
C10_NoSignalAfterDestroy ==
    /\ Listeners("ON_BLUR") = 1
    /\ Listeners("ON_FOCUS") = 1
    /\ (~Live /\ call.op \in {"ON_BLUR", "ON_FOCUS"}) => call.calls = <<>>
\* C11: a blur signal invokes onBlur, and a focus signal invokes onFocus,
\* exactly when pauseOnBlur is true as the signal is delivered; the flag is
\* true after construction.
C11_GatedByPauseOnBlur ==
    /\ call.op = "new" => pauseOnBlur = TRUE
    /\ call.op = "ON_BLUR" =>
          call.calls = IF pauseOnBlur THEN <<Invoke("onBlur", 0)>> ELSE <<>>
    /\ call.op = "ON_FOCUS" =>
          call.calls = IF pauseOnBlur THEN <<Invoke("onFocus", 0)>> ELSE <<>>

\* a focus signal was delivered to a live manager whose pauseOnBlur had been
\* set to false, and no hook ran
C11_Witness ==
    /\ call.op = "ON_FOCUS"
    /\ Live
    /\ pauseOnBlur = FALSE
    /\ call.calls = <<>>
    /\ Len(sounds) >= 1
\* the registry holds no active sound: it is empty or all pendingRemove
NoActiveSound(snds) == \A s \in Registered(snds) : sound[s].pendingRemove

\* C12: on a live manager whose registry is empty or holds only
\* pendingRemove sounds, pauseAll, resumeAll and stopAll complete, call no
\* sound and dispatch their one event, and update completes, ticks no
\* sound and leaves the registry empty.
C12_NothingActive ==
    [][ (Live /\ NoActiveSound(sounds)) =>
          /\ call'.op \in {"pauseAll", "resumeAll", "stopAll", "update"} =>
                call'.threw = FALSE
          /\ call'.op = "pauseAll" =>
                call'.calls = <<Dispatch("SOUND_PAUSE", 0)>>
          /\ call'.op = "resumeAll" =>
                call'.calls = <<Dispatch("SOUND_RESUME", 0)>>
          /\ call'.op = "stopAll" =>
                call'.calls = <<Dispatch("SOUND_STOP", 0)>>
          /\ call'.op = "update" =>
                (call'.calls = <<>> /\ sounds' = <<>>) ]_vars

\* both sounds ever created were auto-destroyed and reaped, and the last
\* update ran on a registry without active sounds and ticked nothing
C12_Witness ==
    /\ call.op = "update"
    /\ call.calls = <<>>
    /\ sounds = <<>>
    /\ created = 2
    /\ stats.reaped = 2
    /\ \A s \in 1..2 : sound[s].ended /\ sound[s].destroyCalls = 1
\* the positions in calls of the invocations of method m
Positions(calls, m) == {i \in DOMAIN calls : calls[i].m = m}

\* C13: play(key, extra) subscribes the one-shot completion handler on the
\* new sound, then starts playback exactly once: by marker name after adding
\* the marker when extra has a name, with extra when it has none, with
\* defaults when extra is absent; no play precedes the subscription.
C13_HandlerBeforePlay ==
    call.op = "play" =>
        /\ call.snd = sounds[Len(sounds)]
        /\ \A i \in DOMAIN call.calls : call.calls[i].s = call.snd
        /\ Cardinality(Positions(call.calls, "once")) = 1
        /\ Cardinality(Positions(call.calls, "play")) = 1
        /\ \A i \in Positions(call.calls, "once") :
              \A j \in Positions(call.calls, "play") : i < j
        /\ sound[call.snd].fireAndForget
        /\ call.extra = "marker" =>
              /\ Len(call.calls) = 3
              /\ call.calls[2].m = "addMarker" /\ call.calls[2].a = MarkerName
              /\ call.calls[3].m = "play" /\ call.calls[3].a = MarkerName
        /\ call.extra = "config" =>
              /\ Len(call.calls) = 2
              /\ call.calls[2] = InvokeWith("play", call.snd, "config", 0, 0)
        /\ call.extra = "none" =>
              /\ Len(call.calls) = 2
              /\ call.calls[2] = Invoke("play", call.snd)

\* play was called with a marker: handler, marker, then playback by name
C13_Witness ==
    /\ call.op = "play"
    /\ call.extra = "marker"
    /\ call.calls[1].m = "once"
    /\ call.calls[2].m = "addMarker"
    /\ call.calls[3].m = "play"
    /\ sound[call.snd].onceEnded
\* C14: addAudioSprite(key) returns the sound add created, with the cache's
\* spritemap attached, and adds one marker per own entry of the spritemap,
\* with the entry's name and start and with duration end - start; an
\* inherited entry gives no marker.
C14_OneMarkerPerOwnEntry ==
    (call.op = "addAudioSprite" /\ ~call.threw) =>
        /\ call.snd = sounds[Len(sounds)]
        /\ call.calls[1] = Invoke("spritemap", call.snd)
        /\ Len(call.calls) =
              1 + Cardinality({i \in DOMAIN Spritemap : Spritemap[i].own})
        /\ \A i \in DOMAIN Spritemap :
              Cardinality({j \in DOMAIN call.calls :
                              /\ call.calls[j].m = "addMarker"
                              /\ call.calls[j].s = call.snd
                              /\ call.calls[j].a = Spritemap[i].name}) =
                 IF Spritemap[i].own THEN 1 ELSE 0
        /\ \A j \in Positions(call.calls, "addMarker") :
              \E i \in DOMAIN Spritemap :
                 /\ Spritemap[i].own
                 /\ call.calls[j].a = Spritemap[i].name
                 /\ call.calls[j].v = Spritemap[i].start
                 /\ call.calls[j].w = Spritemap[i].end - Spritemap[i].start

\* addAudioSprite has returned a sound with the markers a (0, 2) and
\* b (2, 3) and none for the inherited entry
C14_Witness ==
    /\ call.op = "addAudioSprite"
    /\ ~call.threw
    /\ call.calls = <<Invoke("spritemap", call.snd),
                      InvokeWith("addMarker", call.snd, "a", 0, 2),
                      InvokeWith("addMarker", call.snd, "b", 2, 3)>>
    /\ call.snd \in Registered(sounds)
\* the active sounds of the registry
ActiveSounds == {s \in Registered(sounds) : ~sound[s].pendingRemove}

\* C15 as stated: a write of mute, volume, rate or detune invokes a hook on
\* each active registered sound.
C15_AllFourPropagated ==
    call.op \in {"mute", "volume", "rate", "detune"} =>
        \A s \in ActiveSounds : \E i \in DOMAIN call.calls : call.calls[i].s = s

\* C15 amended: a write of rate or detune invokes setRate once on each active
\* registered sound and on no other; a write of mute or volume stores the
\* value and invokes nothing on any sound or dispatcher.
C15_OnlyRateDetunePropagated ==
    /\ call.op \in {"rate", "detune"} =>
          \A s \in SoundIds :
             /\ Invoked(call.calls, "setRate", s) =
                   IF s \in ActiveSounds THEN 1 ELSE 0
             /\ \A i \in DOMAIN call.calls :
                   call.calls[i].s = s => call.calls[i].m = "setRate"
    /\ call.op = "mute" => (mute = call.ret /\ call.calls = <<>>)
    /\ call.op = "volume" => (volume = call.val /\ call.calls = <<>>)

\* mute was set on a registry of two active sounds and nothing was invoked
C15_Witness ==
    /\ call.op = "mute"
    /\ mute = TRUE
    /\ Cardinality(ActiveSounds) >= 2
    /\ call.calls = <<>>
\* C16 as stated: no sound receives update(time, delta) in an update call
\* during or before which its pendingRemove flag became set.
C16_NeverTickedWhenMarked ==
    [][ call'.op = "update" =>
          \A s \in SoundIds :
             sound'[s].pendingRemove =>
                Invoked(call'.calls, "update", s) = 0 ]_vars

\* C16 amended: a sound that is pendingRemove when update is called is
\* dropped by the reap pass and receives no update(time, delta) in that
\* call; a sound whose flag becomes set during the tick pass has received
\* update(time, delta) once in that call and stays registered until a later
\* call reaps it.
C16_MarkedBeforeNotTicked ==
    [][ call'.op = "update" =>
          \A s \in SoundIds :
             /\ sound[s].pendingRemove =>
                   /\ Invoked(call'.calls, "update", s) = 0
                   /\ s \notin Registered(sounds')
             /\ (s \in Registered(sounds) /\ ~sound[s].pendingRemove
                    /\ sound'[s].pendingRemove) =>
                   /\ Invoked(call'.calls, "update", s) = 1
                   /\ s \in Registered(sounds') ]_vars

\* one update has dropped a marked sound without ticking it and has ticked
\* the only survivor, which set its flag during that tick
C16_Witness ==
    /\ call.op = "update"
    /\ created = 2
    /\ sounds = <<2>>
    /\ sound[1].pendingRemove
    /\ sound[2].pendingRemove
    /\ call.calls = <<InvokeWith("update", 2, "", call.val, call.val2)>>
    /\ stats.reaped = 1
\* the calls of a write: the hook of every active sound has run and has read
\* the global rate r and detune d, and only then is the one event dispatched
HooksThenEvent(calls, name, r, d) ==
    /\ Positions(calls, name) = {Len(calls)}
    /\ Positions(calls, "setRate") = 1..(Len(calls) - 1)
    /\ {calls[i].s : i \in Positions(calls, "setRate")} = ActiveSounds
    /\ \A i \in Positions(calls, "setRate") : calls[i].v = r /\ calls[i].w = d

\* C17: a write of rate or detune stores, then propagates, then notifies:
\* every setRate hook that runs during the write reads the new global value,
\* the SOUND_RATE / SOUND_DETUNE event is dispatched after the hook of every
\* active sound has run, and the state the write leaves to the next
\* operation has every active sound recalculated.
C17_StoreThenPropagateThenNotify ==
    /\ call.op = "rate" =>
          /\ rate = call.val
          /\ HooksThenEvent(call.calls, "SOUND_RATE", call.val, detune)
    /\ call.op = "detune" =>
          /\ detune = call.val
          /\ HooksThenEvent(call.calls, "SOUND_DETUNE", rate, call.val)

\* rate was changed from 1 to 2 while detune was 100, on two active sounds
\* and one pendingRemove sound: both hooks read rate 2
C17_Witness ==
    /\ call.op = "rate"
    /\ Len(sounds) = 3
    /\ sound[sounds[1]].pendingRemove
    /\ call.calls = <<InvokeWith("setRate", sounds[2], "", 2, 100),
                      InvokeWith("setRate", sounds[3], "", 2, 100),
                      Dispatch("SOUND_RATE", 2)>>
\* C18: every sound that leaves the registry - through remove, removeByKey,
\* the reap pass of update or manager destroy - has had destroy invoked on
\* it by the time it leaves; the reap pass and manager destroy, which do not
\* destroy pendingRemove sounds, never drop a sound that was not destroyed.
C18_DestroyedBeforeLeaving ==
    [][ \A s \in Registered(sounds) \ Registered(sounds') :
           /\ sound'[s].destroyCalls >= 1
           /\ sound'[s].pendingRemove
           /\ (call'.op = "update" \/ Invoked(call'.calls, "destroy", s) = 0)
                 => sound[s].destroyCalls >= 1 ]_vars

\* three sounds have left the registry, one by the reap pass, one by remove
\* or removeByKey and the last by manager destroy, each one destroyed
C18_Witness ==
    /\ call.op = "destroy"
    /\ created = 3
    /\ stats.reaped = 1
    /\ stats.removes = 1
    /\ Len(call.calls) = 1
    /\ \A s \in 1..created : sound[s].destroyCalls >= 1
\* C19: when addAudioSprite or playAudioSprite fails because the cache
\* lookup of the sprite metadata raises, the sound the failed call created
\* is not in the registry when the failure reaches the caller.
C19_FailedCallLeavesNoSound ==
    (call.op \in {"addAudioSprite", "playAudioSprite"} /\ call.threw) =>
        call.snd \notin Registered(sounds)
\* C20: pauseAll, resumeAll, stopAll, a write of rate or detune and the
\* handling of a blur or focus signal leave the registry's membership and
\* order and the mute, volume and pauseOnBlur settings unchanged; a write of
\* rate leaves detune unchanged and a write of detune leaves rate unchanged.
C20_ControlsFrame ==
    [][ /\ call'.op \in {"pauseAll", "resumeAll", "stopAll", "rate", "detune",
                         "ON_BLUR", "ON_FOCUS"} =>
              /\ sounds' = sounds
              /\ mute' = mute
              /\ volume' = volume
              /\ pauseOnBlur' = pauseOnBlur
        /\ call'.op = "rate" => detune' = detune
        /\ call'.op = "detune" => rate' = rate
        /\ call'.op \in {"pauseAll", "resumeAll", "stopAll", "ON_BLUR",
                         "ON_FOCUS"} => (rate' = rate /\ detune' = detune)
      ]_vars

\* detune was written on a manager whose other settings all differ from
\* their defaults and whose registry holds two sounds
C20_Witness ==
    /\ call.op = "detune"
    /\ detune = 100
    /\ rate = 2
    /\ mute = TRUE
    /\ volume = 0
    /\ pauseOnBlur = FALSE
    /\ Len(sounds) >= 2
    /\ Len(call.calls) >= 2
====
